---- MODULE Spec2Model ----
(***************************************************************************)
(* Model of the 2048 rule engine (src/src/game.rs, src/src/board.rs).      *)
(*                                                                         *)
(* Option<u32> is modelled as an integer: None is -1, Some(v) is v.        *)
(* A Board is a function  [0..3 -> [0..3 -> Option<u32>]]  (row, then      *)
(* column).  An outcome board holds CellResult records.                    *)
(* The process-wide random source is modelled as nondeterministic inputs   *)
(* of the actions (the spawn position and the spawn value).                *)
(***************************************************************************)
EXTENDS Integers, Sequences, FiniteSets, TLC

\* ------------------------------------------------------------ constants
BOARD_SIZE == 4
STARTING_TILE_COUNT == 2
STARTING_TILE_TWO == 2
STARTING_TILE_FOUR == 4

None == -1

\* ------------------------------------------------------------ bounds
\* Number of engine calls (apply_move / restart) explored after Init.
MaxMoves == 2
\* Number of cells the random draws of initialize_board choose among.
MaxStartCells == 4
\* Number of empty cells the random draw of spawn_random_tile chooses among.
MaxSpawnDraws == 2
\* Largest tile value of the boards the pure-function specification draws.
MaxVal == 4

Idx == 0 .. (BOARD_SIZE - 1)
Positions == Idx \X Idx
GameAction == {"Up", "Down", "Left", "Right"}

\* ------------------------------------------------------------ board.rs
\* Board::default(): every cell None.
BoardDefault == [r \in Idx |-> [c \in Idx |-> None]]

\* Board::cell
Cell(board, row, col) == board[row][col]

\* The write lands only on an empty cell.
CellMutIfEmpty(board, row, col, value) ==
  IF board[row][col] = None THEN [board EXCEPT ![row][col] = value]
  ELSE board

\* *board.cell_mut(row, col) = value
CellMut(board, row, col, value) ==
  [board EXCEPT ![row][col] = value]

\* Board::iter_cells: the coordinates in row-major order.
IterCells ==
  [k \in 1 .. (BOARD_SIZE * BOARD_SIZE) |->
     <<(k - 1) \div BOARD_SIZE, (k - 1) % BOARD_SIZE>>]

IsSome(v) == v # None

Rev(s) == [k \in 1 .. Len(s) |-> s[Len(s) + 1 - k]]

\* The empty cells are not skipped.
RowNoFilter(board, row) == [k \in 1 .. BOARD_SIZE |-> board[row][k - 1]]

\* Board::row: the occupied values of a row, left to right.
Row(board, row) ==
  SelectSeq([k \in 1 .. BOARD_SIZE |-> board[row][k - 1]], IsSome)

\* Board::col: the occupied values of a column, top to bottom.
Col(board, col) ==
  SelectSeq([k \in 1 .. BOARD_SIZE |-> board[k - 1][col]], IsSome)

\* ------------------------------------------------------------ game.rs
\* CellResult::default()
CellDefault == [value |-> None, merged |-> FALSE]

\* ActionOutcome::default()
OutcomeDefault ==
  [score |-> 0, changed |-> FALSE, game_over |-> FALSE,
   board |-> [r \in Idx |-> [c \in Idx |-> CellDefault]]]

\* The values of an outcome board (tests' outcome_values).
OutcomeValues(oboard) == [r \in Idx |-> [c \in Idx |-> oboard[r][c].value]]

\* The score is left at its default.
OutcomeFromNoScore(board, score, game_over) ==
  [score |-> 0, changed |-> FALSE, game_over |-> game_over,
   board |-> [r \in Idx |-> [c \in Idx |->
                [value |-> board[r][c], merged |-> FALSE]]]]

\* The engine's game_over flag is not copied.
OutcomeFromDefaultFlag(board, score, game_over) ==
  [score |-> score, changed |-> FALSE, game_over |-> FALSE,
   board |-> [r \in Idx |-> [c \in Idx |->
                [value |-> board[r][c], merged |-> FALSE]]]]

\* impl From<&Game> for ActionOutcome
OutcomeFrom(board, score, game_over) ==
  [score |-> score, changed |-> FALSE, game_over |-> game_over,
   board |-> [r \in Idx |-> [c \in Idx |->
                [value |-> board[r][c], merged |-> FALSE]]]]

\* A merged tile is put back and can merge again.
RECURSIVE SlideAndMergeLineChain(_, _, _, _)
SlideAndMergeLineChain(tiles, positions, oboard, score) ==
  IF positions = <<>> \/ tiles = <<>>
  THEN [board |-> oboard, score |-> score]
  ELSE LET pos == Head(positions)
           tile == Head(tiles)
           rest == Tail(tiles)
       IN IF rest # <<>> /\ tile = Head(rest)
          THEN LET tile_sum == tile + Head(rest)
               IN SlideAndMergeLineChain(
                    <<tile_sum>> \o Tail(rest), positions, oboard,
                    score + tile_sum)
          ELSE SlideAndMergeLineChain(
                 rest, Tail(positions),
                 [oboard EXCEPT ![pos[1]][pos[2]] =
                    [value |-> tile, merged |-> FALSE]],
                 score)

\* The merge does not advance past the second source tile.
RECURSIVE SlideAndMergeLineNoConsume(_, _, _, _)
SlideAndMergeLineNoConsume(tiles, positions, oboard, score) ==
  IF positions = <<>> \/ tiles = <<>>
  THEN [board |-> oboard, score |-> score]
  ELSE LET pos == Head(positions)
           tile == Head(tiles)
           rest == Tail(tiles)
       IN IF rest # <<>> /\ tile = Head(rest)
          THEN LET tile_sum == tile + Head(rest)
               IN SlideAndMergeLineNoConsume(
                    rest, Tail(positions),
                    [oboard EXCEPT ![pos[1]][pos[2]] =
                       [value |-> tile_sum, merged |-> TRUE]],
                    score + tile_sum)
          ELSE SlideAndMergeLineNoConsume(
                 rest, Tail(positions),
                 [oboard EXCEPT ![pos[1]][pos[2]] =
                    [value |-> tile, merged |-> FALSE]],
                 score)

\* The merged cell keeps the value of one source tile.
RECURSIVE SlideAndMergeLineKeepsValue(_, _, _, _)
SlideAndMergeLineKeepsValue(tiles, positions, oboard, score) ==
  IF positions = <<>> \/ tiles = <<>>
  THEN [board |-> oboard, score |-> score]
  ELSE LET pos == Head(positions)
           tile == Head(tiles)
           rest == Tail(tiles)
       IN IF rest # <<>> /\ tile = Head(rest)
          THEN LET tile_sum == tile + Head(rest)
               IN SlideAndMergeLineKeepsValue(
                    Tail(rest), Tail(positions),
                    [oboard EXCEPT ![pos[1]][pos[2]] =
                       [value |-> tile, merged |-> TRUE]],
                    score + tile_sum)
          ELSE SlideAndMergeLineKeepsValue(
                 rest, Tail(positions),
                 [oboard EXCEPT ![pos[1]][pos[2]] =
                    [value |-> tile, merged |-> FALSE]],
                 score)

\* Game::slide_and_merge_line.  tiles: the occupied values in travel order;
\* positions: the destination cells from the leading edge.  Returns the
\* outcome board and the score accumulator.
RECURSIVE SlideAndMergeLine(_, _, _, _)
SlideAndMergeLine(tiles, positions, oboard, score) ==
  IF positions = <<>> \/ tiles = <<>>
  THEN [board |-> oboard, score |-> score]
  ELSE LET pos == Head(positions)
           tile == Head(tiles)
           rest == Tail(tiles)
       IN IF rest # <<>> /\ tile = Head(rest)
          THEN LET tile_sum == tile + Head(rest)
               IN SlideAndMergeLine(
                    Tail(rest), Tail(positions),
                    [oboard EXCEPT ![pos[1]][pos[2]] =
                       [value |-> tile_sum, merged |-> TRUE]],
                    score + tile_sum)
          ELSE SlideAndMergeLine(
                 rest, Tail(positions),
                 [oboard EXCEPT ![pos[1]][pos[2]] =
                    [value |-> tile, merged |-> FALSE]],
                 score)

\* (0..BOARD_SIZE).map(|row| (row, col)) and (0..BOARD_SIZE).map(|col| (row, col))
\* The destination cells of a row start one cell after its first cell.
RowPositionsOffByOne(row) == [k \in 1 .. BOARD_SIZE |-> <<row, k % BOARD_SIZE>>]

ColPositions(col) == [k \in 1 .. BOARD_SIZE |-> <<k - 1, col>>]
RowPositions(row) == [k \in 1 .. BOARD_SIZE |-> <<row, k - 1>>]

\* Down and Right read the line forward, from the trailing edge.
LineTilesNoRev(board, direction, i) ==
  CASE direction = "Up" -> Col(board, i)
    [] direction = "Down" -> Col(board, i)
    [] direction = "Left" -> Row(board, i)
    [] direction = "Right" -> Row(board, i)

\* The tiles and the positions slide_and_merge hands to slide_and_merge_line
\* for line i of the given direction.
LineTiles(board, direction, i) ==
  CASE direction = "Up" -> Col(board, i)
    [] direction = "Down" -> Rev(Col(board, i))
    [] direction = "Left" -> Row(board, i)
    [] direction = "Right" -> Rev(Row(board, i))

\* The destination cells are not reversed for Down and Right.
LinePositionsNoRev(direction, i) ==
  CASE direction = "Up" -> ColPositions(i)
    [] direction = "Down" -> ColPositions(i)
    [] direction = "Left" -> RowPositions(i)
    [] direction = "Right" -> RowPositions(i)

LinePositions(direction, i) ==
  CASE direction = "Up" -> ColPositions(i)
    [] direction = "Down" -> Rev(ColPositions(i))
    [] direction = "Left" -> RowPositions(i)
    [] direction = "Right" -> Rev(RowPositions(i))

\* The loop stops one line short.
RECURSIVE SlideAndMergeFromSkipsLast(_, _, _, _)
SlideAndMergeFromSkipsLast(board, direction, i, outcome) ==
  IF i >= BOARD_SIZE - 1
  THEN outcome
  ELSE LET res == SlideAndMergeLine(LineTiles(board, direction, i),
                                    LinePositions(direction, i),
                                    outcome.board, outcome.score)
       IN SlideAndMergeFromSkipsLast(board, direction, i + 1,
            [outcome EXCEPT !.board = res.board, !.score = res.score])

\* Game::slide_and_merge: the loop over the BOARD_SIZE lines, from line i on.
RECURSIVE SlideAndMergeFrom(_, _, _, _)
SlideAndMergeFrom(board, direction, i, outcome) ==
  IF i >= BOARD_SIZE
  THEN outcome
  ELSE LET res == SlideAndMergeLine(LineTiles(board, direction, i),
                                    LinePositions(direction, i),
                                    outcome.board, outcome.score)
       IN SlideAndMergeFrom(board, direction, i + 1,
            [outcome EXCEPT !.board = res.board, !.score = res.score])

SlideAndMerge(board, direction, outcome) ==
  SlideAndMergeFrom(board, direction, 0, outcome)

\* The differing cells are found but not written.
UpdateBoardGridNoWrite(board, outcome) ==
  [r \in Idx |-> [c \in Idx |-> Cell(board, r, c)]]

\* Game::update_board: writes the differing values into the grid and ORs
\* "some cell differed" into outcome.changed.
UpdateBoardGrid(board, outcome) ==
  [r \in Idx |-> [c \in Idx |->
     IF outcome.board[r][c].value # Cell(board, r, c)
     THEN outcome.board[r][c].value
     ELSE Cell(board, r, c)]]

\* The diff is not ORed into outcome.changed.
UpdateBoardChangedKeep(board, outcome) == outcome.changed

\* Only the first row is compared.
UpdateBoardChangedFirstRow(board, outcome) ==
  outcome.changed
  \/ \E c \in Idx : outcome.board[0][c].value # Cell(board, 0, c)

UpdateBoardChanged(board, outcome) ==
  outcome.changed
  \/ \E r \in Idx : \E c \in Idx :
       outcome.board[r][c].value # Cell(board, r, c)

\* The neighbour checks stop one short of the last row and column.
ScanReturnsAtSkipLast(board, row, col) ==
  LET current_tile == Cell(board, row, col)
  IN \/ current_tile = None
     \/ col + 1 < BOARD_SIZE - 1 /\ Cell(board, row, col + 1) = current_tile
     \/ row + 1 < BOARD_SIZE - 1 /\ Cell(board, row + 1, col) = current_tile

\* The neighbour below is not compared.
ScanReturnsAtNoDown(board, row, col) ==
  LET current_tile == Cell(board, row, col)
  IN \/ current_tile = None
     \/ col + 1 < BOARD_SIZE /\ Cell(board, row, col + 1) = current_tile

\* Game::check_game_over: the scan returns early at cell (row, col).
ScanReturnsAt(board, row, col) ==
  LET current_tile == Cell(board, row, col)
  IN \/ current_tile = None
     \/ col + 1 < BOARD_SIZE /\ Cell(board, row, col + 1) = current_tile
     \/ row + 1 < BOARD_SIZE /\ Cell(board, row + 1, col) = current_tile

\* TRUE when the scan falls through both loops (the board is terminal).
ScanCompletes(board) ==
  \A row \in Idx : \A col \in Idx : ~ScanReturnsAt(board, row, col)

\* The else branch returns the sum of the two constants.
SpawnTileValuesSum ==
  {STARTING_TILE_TWO, STARTING_TILE_TWO + STARTING_TILE_FOUR}

\* Game::spawn_tile: the values random_bool can select.
SpawnTileValues == {STARTING_TILE_TWO, STARTING_TILE_FOUR}

\* The filter on empty cells is missing.
EmptyCellsAny(oboard) == IterCells

\* Game::spawn_random_tile: iter_cells().filter(value.is_none()), the
\* empty cells of the outcome board in row-major order.
EmptyCells(oboard) ==
  LET IsEmpty(p) == oboard[p[1]][p[2]].value = None
  IN SelectSeq(IterCells, IsEmpty)

\* The indices `choose` draws from among n candidates: the first
\* MaxSpawnDraws - 1 and the last.
Draws(n) == {i \in 1 .. n : i < MaxSpawnDraws \/ i = n}

\* The first cell of the board is chosen whether it is empty or not.
SpawnChoicesFirstCell(oboard) == {IterCells[1]}

\* Game::spawn_random_tile: the cells `choose` can return ({} when it
\* returns None).
SpawnChoices(oboard) ==
  LET empty == EmptyCells(oboard)
  IN {empty[i] : i \in Draws(Len(empty))}

\* The spawned tile is flagged merged.
SpawnWriteFlagged(oboard, pos, value) ==
  [oboard EXCEPT ![pos[1]][pos[2]] = [value |-> value, merged |-> TRUE]]

\* Game::spawn_random_tile: the write of the chosen cell.
SpawnWrite(oboard, pos, value) ==
  [oboard EXCEPT ![pos[1]][pos[2]] = [value |-> value, merged |-> FALSE]]

\* The cells the draws of sample_fill are taken from: MaxStartCells cells
\* of iter_cells, spread over the grid (every 7th cell, wrapping around).
StartCells ==
  {IterCells[1 + ((k * 7) % (BOARD_SIZE * BOARD_SIZE))] :
     k \in 0 .. (MaxStartCells - 1)}

\* The cells are drawn with replacement: both draws can hit the same cell.
InitialBoardsWithReplacement ==
  {[r \in Idx |-> [c \in Idx |->
      IF <<r, c>> \in DOMAIN tiles THEN tiles[<<r, c>>] ELSE None]] :
     tiles \in UNION {[cells -> SpawnTileValues] :
                        cells \in {cs \in SUBSET StartCells :
                                     /\ cs # {}
                                     /\ Cardinality(cs) <= STARTING_TILE_COUNT}}}

\* Game::initialize_board: the boards sample_fill and spawn_tile can produce
\* (STARTING_TILE_COUNT distinct cells, each holding a spawn_tile value).
InitialBoards ==
  {[r \in Idx |-> [c \in Idx |->
      IF <<r, c>> \in DOMAIN tiles THEN tiles[<<r, c>>] ELSE None]] :
     tiles \in UNION {[cells -> SpawnTileValues] :
                        cells \in {cs \in SUBSET StartCells :
                                     Cardinality(cs) = STARTING_TILE_COUNT}}}

\* ------------------------------------------------------------ engine state
VARIABLES
  board,      \* Game.board
  score,      \* Game.score
  game_over,  \* Game.game_over
  result,     \* "Ok" or "Err": what the last call returned
  outcome,    \* the ActionOutcome the last call returned
  op,         \* the last call: "new", "resume", "move" or "restart"
  dir,        \* the direction of the last apply_move
  pre,        \* the engine's fields when the last call started (restart
              \* reads none of them: of the grid it records only that of
              \* an engine that was over)
  slid,       \* the outcome as slide_and_merge left it (before the spawn)
  spawn,      \* <<position, value>> written by spawn_random_tile, or <<>>
  call,       \* the arguments and the return value of the last Board call
  steps,      \* number of calls made so far
  input_pc,   \* input_loop: "read", "send" (in blocking_send) or "done"
  pending,    \* the Event input_loop is sending
  chan,       \* the messages buffered in the channel
  sent,       \* the Events blocking_send has accepted, in order
  event_pc,   \* event_loop: "new", "recv", "handle", "in_call", "quit",
              \* "closed" (recv returned None) or "error" (draw failed)
  current,    \* the Event event_loop is handling
  applied,    \* the calls the Game instance has received, in order
  in_call     \* number of engine calls in progress

loopVars == <<input_pc, pending, chan, sent, event_pc, current, applied,
              in_call>>

engineVars == <<board, score, game_over, result, outcome, op, dir, pre, slid,
                spawn, call, steps>>

vars == <<board, score, game_over, result, outcome, op, dir, pre, slid,
          spawn, call, steps, input_pc, pending, chan, sent, event_pc,
          current, applied, in_call>>

NoEvent == "none"

\* The two loops before main has started them.
LoopsNotStarted ==
  /\ input_pc = "read"
  /\ pending = NoEvent
  /\ chan = <<>>
  /\ sent = <<>>
  /\ event_pc = "new"
  /\ current = NoEvent
  /\ applied = <<>>
  /\ in_call = 0

Engine(b, s, g) == [board |-> b, score |-> s, game_over |-> g]

\* A board written as rows (tests' board_from_rows).
BoardFromRows(rows) == [r \in Idx |-> [c \in Idx |-> rows[r + 1][c + 1]]]

\* Positions of one play of the game from Game::new() to game over, the
\* five before the last (34 moves; grid [_,_,_,_ / _,_,_,_ /
\* _,_,_,2 / _,2,_,_] at the start, final score 140).
MidGamePositions ==
  { [rows |-> <<<<2, -1, -1, -1>>, <<4, 2, 16, -1>>, <<2, 16, 2, 2>>, <<4, 2, 16, 4>>>>, score |-> 136],
    [rows |-> <<<<2, 2, 16, 2>>, <<4, 16, 2, 4>>, <<2, 2, 16, 2>>, <<4, -1, -1, -1>>>>, score |-> 136],
    [rows |-> <<<<2, 2, -1, -1>>, <<4, 2, 16, 2>>, <<2, 16, 2, 4>>, <<4, 2, 16, 2>>>>, score |-> 136],
    [rows |-> <<<<-1, 2, -1, 4>>, <<4, 2, 16, 2>>, <<2, 16, 2, 4>>, <<4, 2, 16, 2>>>>, score |-> 140],
    [rows |-> <<<<4, -1, 2, 4>>, <<4, 2, 16, 2>>, <<2, 16, 2, 4>>, <<4, 2, 16, 2>>>>, score |-> 140] }

\* The position that play ended in: the last move (Right, spawning a 2 in
\* the top left cell) filled the grid and set game_over.
FinalPosition ==
  [rows |-> <<<<2, 4, 2, 4>>, <<4, 2, 16, 2>>, <<2, 16, 2, 4>>, <<4, 2, 16, 2>>>>, score |-> 140]

\* Game::new()
InitNew ==
  /\ board \in InitialBoards
  /\ score = 0
  /\ game_over = FALSE
  /\ op = "new"

\* A game in progress, or one that is over.
InitResume ==
  /\ \/ /\ \E m \in MidGamePositions :
             /\ board = BoardFromRows(m.rows)
             /\ score = m.score
        /\ game_over = FALSE
     \/ /\ board = BoardFromRows(FinalPosition.rows)
        /\ score = FinalPosition.score
        /\ game_over = TRUE
  /\ op = "resume"

Init ==
  /\ InitNew \/ InitResume
  /\ result = "Ok"
  /\ outcome = OutcomeFrom(board, score, game_over)
  /\ dir = "Up"
  /\ pre = Engine(board, score, game_over)
  /\ slid = OutcomeDefault
  /\ spawn = <<>>
  /\ call = <<>>
  /\ LoopsNotStarted
  /\ steps = 0

\* Game::is_game_over
IsGameOver(g) == g

\* The engine's flag is not set.
CheckGameOverOutcomeOnly(b, g, o) ==
  IF ScanCompletes(b)
  THEN [game_over |-> g, outcome |-> [o EXCEPT !.game_over = TRUE]]
  ELSE [game_over |-> g, outcome |-> o]

\* The scan runs only when the move changed the grid.
CheckGameOverIfChanged(b, g, o) ==
  IF o.changed /\ ScanCompletes(b)
  THEN [game_over |-> TRUE, outcome |-> [o EXCEPT !.game_over = TRUE]]
  ELSE [game_over |-> g, outcome |-> o]

\* The scan's early returns are ignored: the flag is always set.
CheckGameOverNoScan(b, g, o) ==
  [game_over |-> TRUE, outcome |-> [o EXCEPT !.game_over = TRUE]]

\* Game::check_game_over applied to the grid b and the outcome o: the
\* engine flag and the outcome afterwards.
CheckGameOver(b, g, o) ==
  IF ScanCompletes(b)
  THEN [game_over |-> (g \/ TRUE), outcome |-> [o EXCEPT !.game_over = TRUE]]
  ELSE [game_over |-> g, outcome |-> o]

\* outcome.score keeps the delta of the move.
UpdateScoreReportsDelta(s, o) == [score |-> s + o.score, outcome |-> o]

\* Game::update_score
UpdateScore(s, o) == [score |-> s + o.score,
                      outcome |-> [o EXCEPT !.score = s + o.score]]

\* Game::update_board
UpdateBoard(b, o) ==
  [board |-> UpdateBoardGrid(b, o),
   outcome |-> [o EXCEPT !.changed = UpdateBoardChanged(b, o)]]

\* Game::apply_move, lines 107-111: slide, first board diff, score accrual.
SlideStep(b, s, direction) ==
  LET o1 == SlideAndMerge(b, direction, OutcomeDefault)
      u1 == UpdateBoard(b, o1)
      sc == UpdateScore(s, u1.outcome)
  IN [board |-> u1.board, score |-> sc.score, outcome |-> sc.outcome,
      slid |-> o1]

\* The spawned tile is not written to the outcome.
SpawnStepNoWrite(st, pos, value) ==
  LET u2 == UpdateBoard(st.board, st.outcome)
  IN [board |-> u2.board, outcome |-> u2.outcome]

\* Game::apply_move, lines 113-120, when a tile is spawned at pos.
SpawnStep(st, pos, value) ==
  LET o4 == [st.outcome EXCEPT !.board = SpawnWrite(@, pos, value)]
      u2 == UpdateBoard(st.board, o4)
  IN [board |-> u2.board, outcome |-> u2.outcome]

\* Game::apply_move
ApplyMove(direction) ==
  /\ steps < MaxMoves
  /\ steps' = steps + 1
  /\ UNCHANGED loopVars
  /\ op' = "move"
  /\ dir' = direction
  /\ pre' = Engine(board, score, game_over)
  /\ UNCHANGED call
  /\ IF IsGameOver(game_over)
     THEN /\ result' = "Ok"
          /\ outcome' = OutcomeFrom(board, score, game_over)
          /\ slid' = OutcomeDefault
          /\ spawn' = <<>>
          /\ UNCHANGED <<board, score, game_over>>
     ELSE \E st \in {SlideStep(board, score, direction)} :
             /\ slid' = st.slid
             /\ score' = st.score
             /\ IF ~st.outcome.changed
                THEN \E fin \in {CheckGameOver(st.board, game_over, st.outcome)} :
                        /\ board' = st.board
                        /\ game_over' = fin.game_over
                        /\ outcome' = fin.outcome
                        /\ result' = "Ok"
                        /\ spawn' = <<>>
                ELSE IF SpawnChoices(st.outcome.board) = {}
                THEN \* bail!: the grid and the score are already written
                     /\ board' = st.board
                     /\ game_over' = game_over
                     /\ outcome' = OutcomeDefault
                     /\ result' = "Err"
                     /\ spawn' = <<>>
                ELSE \E pos \in SpawnChoices(st.outcome.board) :
                     \E value \in SpawnTileValues :
                     \E sp \in {SpawnStep(st, pos, value)} :
                     \E fin \in {CheckGameOver(sp.board, game_over, sp.outcome)} :
                          /\ board' = sp.board
                          /\ game_over' = fin.game_over
                          /\ outcome' = fin.outcome
                          /\ result' = "Ok"
                          /\ spawn' = <<pos, value>>

\* game_over is not cleared.
RestartFieldsKeepFlag(s, g, fresh) == Engine(fresh, 0, g)

\* Game::restart, lines 84-86: the engine's fields after the reset, given
\* the board initialize_board returned.
RestartFields(s, g, fresh) == Engine(fresh, 0, FALSE)

\* Game::restart
Restart ==
  /\ steps < MaxMoves
  /\ steps' = steps + 1
  /\ UNCHANGED loopVars
  /\ op' = "restart"
  /\ pre' = Engine(IF game_over THEN board ELSE BoardDefault, score, game_over)
  /\ \E fresh \in InitialBoards :
     \E e \in {RestartFields(score, game_over, fresh)} :
       /\ board' = e.board
       /\ score' = e.score
       /\ game_over' = e.game_over
       /\ outcome' = [OutcomeFrom(e.board, e.score, e.game_over)
                        EXCEPT !.changed = TRUE]
  /\ result' = "Ok"
  /\ slid' = OutcomeDefault
  /\ spawn' = <<>>
  /\ UNCHANGED <<dir, call>>

Next ==
  \/ \E direction \in GameAction : ApplyMove(direction)
  \/ Restart

Spec == Init /\ [][Next]_vars

\* ------------------------------------------------------------ direct calls
\* The engine's private steps called directly on a given grid, as the unit
\* tests do through game_from_rows.  The grids are a full terminal grid or
\* the empty grid with one row or one column overwritten by any line over
\* None and 1 .. MaxVal (values need not be powers of two).

Lines == [1 .. BOARD_SIZE -> {None} \cup (1 .. MaxVal)]

Backgrounds == {BoardDefault, BoardFromRows(FinalPosition.rows)}

WithRow(b, i, line) == [b EXCEPT ![i] = [c \in Idx |-> line[c + 1]]]
WithCol(b, i, line) == [r \in Idx |-> [b[r] EXCEPT ![i] = line[r + 1]]]

GivenBoards ==
  {WithRow(b, i, line) : b \in Backgrounds, i \in Idx, line \in Lines}
  \cup {WithCol(b, i, line) : b \in Backgrounds, i \in Idx, line \in Lines}

\* game_from_rows(rows, score, game_over)
InitGiven ==
  /\ board \in GivenBoards
  /\ score = 0
  /\ game_over \in BOOLEAN
  /\ op = "given"
  /\ result = "Ok"
  /\ outcome = OutcomeDefault
  /\ dir = "Up"
  /\ pre = Engine(board, score, game_over)
  /\ slid = OutcomeDefault
  /\ spawn = <<>>
  /\ call = <<>>
  /\ LoopsNotStarted
  /\ steps = 0

\* game.slide_and_merge(direction, &mut outcome) on a default outcome.
CallSlideAndMerge(direction) ==
  /\ op = "given"
  /\ op' = "slide_and_merge"
  /\ dir' = direction
  /\ outcome' = SlideAndMerge(board, direction, OutcomeDefault)
  /\ slid' = outcome'
  /\ steps' = steps + 1
  /\ UNCHANGED loopVars
  /\ UNCHANGED <<board, score, game_over, result, pre, spawn, call>>

\* game.check_game_over(&mut outcome) on a default outcome.
CallCheckGameOver ==
  /\ op = "given"
  /\ op' = "check_game_over"
  /\ \E fin \in {CheckGameOver(board, game_over, OutcomeDefault)} :
       /\ game_over' = fin.game_over
       /\ outcome' = fin.outcome
  /\ steps' = steps + 1
  /\ UNCHANGED loopVars
  /\ UNCHANGED <<board, score, result, dir, pre, slid, spawn, call>>

NextCalls ==
  \/ \E direction \in GameAction : CallSlideAndMerge(direction)
  \/ CallCheckGameOver

SpecCalls == InitGiven /\ [][NextCalls]_vars

\* game.slide_and_merge(direction, &mut outcome) on an engine built by
\* game_from_rows(rows, 0, false), as the slide_and_merge tests do.
InitGivenActive == InitGiven /\ game_over = FALSE

NextSlides == \E direction \in GameAction : CallSlideAndMerge(direction)

SpecSlides == InitGivenActive /\ [][NextSlides]_vars

\* game.apply_move(direction) called once on a given engine.
GIVEN_SCORE == 77

InitGivenMove ==
  /\ board \in GivenBoards
  /\ score = GIVEN_SCORE
  /\ game_over \in BOOLEAN
  /\ op = "given"
  /\ result = "Ok"
  /\ outcome = OutcomeDefault
  /\ dir = "Up"
  /\ pre = Engine(board, score, game_over)
  /\ slid = OutcomeDefault
  /\ spawn = <<>>
  /\ call = <<>>
  /\ LoopsNotStarted
  /\ steps = MaxMoves - 1

NextMoves == \E direction \in GameAction : ApplyMove(direction)

SpecMoves == InitGivenMove /\ [][NextMoves]_vars

\* game.apply_move(direction) called once on a given engine that is active.
InitActiveMove == InitGivenMove /\ game_over = FALSE

SpecActiveMoves == InitActiveMove /\ [][NextMoves]_vars

\* ------------------------------------------------------------ Board calls
\* The Board methods called on a board built by board_from_rows, as the
\* tests of board.rs do.

InitBoard ==
  /\ board \in GivenBoards
  /\ score = 0
  /\ game_over = FALSE
  /\ op = "given"
  /\ result = "Ok"
  /\ outcome = OutcomeDefault
  /\ dir = "Up"
  /\ pre = Engine(board, score, game_over)
  /\ slid = OutcomeDefault
  /\ spawn = <<>>
  /\ call = <<>>
  /\ LoopsNotStarted
  /\ steps = 0

\* board.row(i).collect() and board.row(i).rev().collect()
CallRow(i, reversed) ==
  /\ op = "given"
  /\ op' = "row"
  /\ call' = [args |-> <<i, reversed>>,
              ret |-> IF reversed THEN Rev(Row(board, i)) ELSE Row(board, i)]
  /\ steps' = steps + 1
  /\ UNCHANGED loopVars
  /\ UNCHANGED <<board, score, game_over, result, outcome, dir, pre, slid,
                 spawn>>

\* board.col(i).collect() and board.col(i).rev().collect()
CallCol(i, reversed) ==
  /\ op = "given"
  /\ op' = "col"
  /\ call' = [args |-> <<i, reversed>>,
              ret |-> IF reversed THEN Rev(Col(board, i)) ELSE Col(board, i)]
  /\ steps' = steps + 1
  /\ UNCHANGED loopVars
  /\ UNCHANGED <<board, score, game_over, result, outcome, dir, pre, slid,
                 spawn>>

\* The values written through cell_mut: None and a tile.
WrittenValues == {None, MaxVal}

\* *board.cell_mut(row, col) = value; board.cell(row, col)
CallCellMut(row, col, value) ==
  /\ op = "given"
  /\ op' = "cell_mut"
  /\ board' = CellMut(board, row, col, value)
  /\ call' = [args |-> <<row, col, value>>, ret |-> Cell(board', row, col)]
  /\ steps' = steps + 1
  /\ UNCHANGED loopVars
  /\ UNCHANGED <<score, game_over, result, outcome, dir, pre, slid, spawn>>

NextBoard ==
  \/ \E i \in Idx : \E reversed \in BOOLEAN : CallRow(i, reversed)
  \/ \E i \in Idx : \E reversed \in BOOLEAN : CallCol(i, reversed)
  \/ \E row \in Idx : \E col \in Idx : \E value \in WrittenValues :
       CallCellMut(row, col, value)

SpecBoard == InitBoard /\ [][NextBoard]_vars

\* ------------------------------------------------------------ spawn calls
\* game.spawn_random_tile(&mut outcome) called directly, as the tests do, on
\* a default engine and an outcome whose board was filled by hand.

\* ActionOutcome::default() with the values of b written into its board;
\* the occupied cells carry merged = flagged.
OutcomeWith(b, flagged) ==
  [OutcomeDefault EXCEPT !.board =
     [r \in Idx |-> [c \in Idx |->
        [value |-> b[r][c], merged |-> flagged /\ b[r][c] # None]]]]

InitSpawn ==
  /\ board = BoardDefault
  /\ score = 0
  /\ game_over = FALSE
  /\ op = "given"
  /\ result = "Ok"
  /\ \E b \in GivenBoards : \E flagged \in BOOLEAN :
       outcome = OutcomeWith(b, flagged)
  /\ dir = "Up"
  /\ pre = Engine(board, score, game_over)
  /\ slid = outcome
  /\ spawn = <<>>
  /\ call = <<>>
  /\ LoopsNotStarted
  /\ steps = 0

\* Game::spawn_random_tile
CallSpawnRandomTile ==
  /\ op = "given"
  /\ op' = "spawn_random_tile"
  /\ IF SpawnChoices(outcome.board) = {}
     THEN /\ result' = "Err"
          /\ spawn' = <<>>
          /\ UNCHANGED outcome
     ELSE \E pos \in SpawnChoices(outcome.board) :
          \E value \in SpawnTileValues :
            /\ outcome' = [outcome EXCEPT !.board = SpawnWrite(@, pos, value)]
            /\ spawn' = <<pos, value>>
            /\ result' = "Ok"
  /\ steps' = steps + 1
  /\ UNCHANGED loopVars
  /\ UNCHANGED <<board, score, game_over, dir, pre, slid, call>>

NextSpawn == CallSpawnRandomTile

SpecSpawn == InitSpawn /\ [][NextSpawn]_vars

\* ------------------------------------------------------------ main.rs
\* input_loop and event_loop joined by the channel main creates.  The Game
\* instance is local to event_loop; its fields follow ApplyMove and Restart
\* above and are not tracked here: each call it receives is recorded in
\* `applied`.

BUFSIZE == 1

\* Number of key presses input_loop sends an Event for.
MaxKeys == 3

Events == {"MoveUp", "MoveDown", "MoveLeft", "MoveRight", "Quit", "Restart"}

\* The key codes input_loop tells apart; "other" stands for every other key
\* and for the events that are not key presses.
Keys == {"Up", "w", "k", "Down", "s", "j", "Left", "a", "h",
         "Right", "d", "l", "r", "q", "other"}

\* input_loop, lines 152-171: the Event sent for a key.
KeyToEvent(key) ==
  CASE key \in {"Up", "w", "k"} -> "MoveUp"
    [] key \in {"Down", "s", "j"} -> "MoveDown"
    [] key \in {"Left", "a", "h"} -> "MoveLeft"
    [] key \in {"Right", "d", "l"} -> "MoveRight"
    [] key = "r" -> "Restart"
    [] key = "q" -> "Quit"
    [] OTHER -> NoEvent

\* The message stays in the channel after it is received.
ChanAfterRecvKeeps(messages) == messages

\* rx.recv(): the buffer after its first message is taken.
ChanAfterRecv(messages) == Tail(messages)

\* event_loop, lines 188-200: the engine call made for an Event.
EngineCall(e) ==
  CASE e = "Restart" -> [fn |-> "restart", arg |-> ""]
    [] e = "MoveUp" -> [fn |-> "apply_move", arg |-> "Up"]
    [] e = "MoveDown" -> [fn |-> "apply_move", arg |-> "Down"]
    [] e = "MoveLeft" -> [fn |-> "apply_move", arg |-> "Left"]
    [] e = "MoveRight" -> [fn |-> "apply_move", arg |-> "Right"]
    [] OTHER -> [fn |-> "panic", arg |-> e]

InitLoops ==
  /\ board = BoardDefault
  /\ score = 0
  /\ game_over = FALSE
  /\ op = "new"
  /\ result = "Ok"
  /\ outcome = OutcomeDefault
  /\ dir = "Up"
  /\ pre = Engine(board, score, game_over)
  /\ slid = OutcomeDefault
  /\ spawn = <<>>
  /\ call = <<>>
  /\ LoopsNotStarted
  /\ steps = 0

\* input_loop, lines 145-171: read() returns a key; a key without an Event
\* continues the loop.
InputRead(key) ==
  /\ input_pc = "read"
  /\ Len(sent) < MaxKeys
  /\ IF KeyToEvent(key) = NoEvent
     THEN UNCHANGED <<input_pc, pending>>
     ELSE /\ pending' = KeyToEvent(key)
          /\ input_pc' = "send"
  /\ UNCHANGED <<chan, sent, event_pc, current, applied, in_call>>
  /\ UNCHANGED engineVars

\* input_loop, line 145: read()? returns the error; the Sender is dropped.
InputReadFails ==
  /\ input_pc = "read"
  /\ input_pc' = "done"
  /\ UNCHANGED <<pending, chan, sent, event_pc, current, applied, in_call>>
  /\ UNCHANGED engineVars

\* tx.blocking_send(event)?: waits for room in the channel; fails when the
\* Receiver is gone.  After Quit the loop breaks.
InputSend ==
  /\ input_pc = "send"
  /\ IF event_pc \in {"quit", "closed", "error"}
     THEN /\ input_pc' = "done"
          /\ UNCHANGED <<chan, sent>>
     ELSE /\ Len(chan) < BUFSIZE
          /\ chan' = Append(chan, pending)
          /\ sent' = Append(sent, pending)
          /\ input_pc' = IF pending = "Quit" THEN "done" ELSE "read"
  /\ pending' = NoEvent
  /\ UNCHANGED <<event_pc, current, applied, in_call>>
  /\ UNCHANGED engineVars

\* event_loop, lines 180-181: Game::new() and the first draw, which can fail
\* (the Receiver is dropped with what it holds).
EventStart ==
  /\ event_pc = "new"
  /\ \/ event_pc' = "recv" /\ UNCHANGED chan
     \/ event_pc' = "error" /\ chan' = <<>>
  /\ UNCHANGED <<input_pc, pending, sent, current, applied, in_call>>
  /\ UNCHANGED engineVars

\* event_loop, lines 183-186: rx.recv().await returns the first message, or
\* None once the channel is empty and the Sender is gone; Quit breaks.
EventRecv ==
  /\ event_pc = "recv"
  /\ IF chan # <<>>
     THEN /\ chan' = ChanAfterRecv(chan)
          /\ IF Head(chan) = "Quit"
             THEN event_pc' = "quit" /\ UNCHANGED current
             ELSE event_pc' = "handle" /\ current' = Head(chan)
     ELSE /\ input_pc = "done"
          /\ event_pc' = "closed"
          /\ UNCHANGED <<chan, current>>
  /\ UNCHANGED <<input_pc, pending, sent, applied, in_call>>
  /\ UNCHANGED engineVars

\* event_loop, lines 188-200: the engine call starts.
EventCall ==
  /\ event_pc = "handle"
  /\ event_pc' = "in_call"
  /\ applied' = Append(applied, EngineCall(current))
  /\ in_call' = in_call + 1
  /\ UNCHANGED <<input_pc, pending, chan, sent, current>>
  /\ UNCHANGED engineVars

\* event_loop, lines 189-204: the engine call returns and the outcome is
\* drawn (always after restart, after a move when changed or game_over);
\* a failed draw ends the loop.
EventReturn ==
  /\ event_pc = "in_call"
  /\ in_call' = in_call - 1
  /\ current' = NoEvent
  /\ \/ event_pc' = "recv" /\ UNCHANGED chan
     \/ event_pc' = "error" /\ chan' = <<>>
  /\ UNCHANGED <<input_pc, pending, sent, applied>>
  /\ UNCHANGED engineVars

NextLoops ==
  \/ \E key \in Keys : InputRead(key)
  \/ InputReadFails
  \/ InputSend
  \/ EventStart
  \/ EventRecv
  \/ EventCall
  \/ EventReturn

SpecLoops == InitLoops /\ [][NextLoops]_vars

\* ------------------------------------------------------------ properties
Filled(b) == {p \in Positions : b[p[1]][p[2]] # None}
CountFilled(b) == Cardinality(Filled(b))
Full(b) == Filled(b) = Positions

RECURSIVE SumCells(_, _)
SumCells(b, cells) ==
  IF cells = {} THEN 0
  ELSE LET p == CHOOSE x \in cells : TRUE
       IN b[p[1]][p[2]] + SumCells(b, cells \ {p})

\* The sum of the tile values of a grid.
TileSum(b) == SumCells(b, Filled(b))

Abs(n) == IF n < 0 THEN -n ELSE n
Adjacent(p, q) == Abs(p[1] - q[1]) + Abs(p[2] - q[2]) = 1

\* No empty cell and no two adjacent cells with equal values.
Terminal(b) ==
  /\ Full(b)
  /\ \A p \in Positions : \A q \in Positions :
       Adjacent(p, q) => b[p[1]][p[2]] # b[q[1]][q[2]]

\* The slide step of some direction would change a cell of b.
CanMove(b) ==
  \E d \in GameAction :
    OutcomeValues(SlideAndMerge(b, d, OutcomeDefault).board) # b

SpawnedValue == IF spawn = <<>> THEN 0 ELSE spawn[2]

\* The k-th cell of line i counted from the edge the direction pushes toward.
Travel(direction, i, k) ==
  CASE direction = "Left" -> <<i, k - 1>>
    [] direction = "Right" -> <<i, BOARD_SIZE - k>>
    [] direction = "Up" -> <<k - 1, i>>
    [] direction = "Down" -> <<BOARD_SIZE - k, i>>

\* Line i of the grid b and of the outcome board ob, from the leading edge.
GridLine(b, direction, i) ==
  [k \in 1 .. BOARD_SIZE |->
     b[Travel(direction, i, k)[1]][Travel(direction, i, k)[2]]]
OutLine(ob, direction, i) ==
  [k \in 1 .. BOARD_SIZE |->
     ob[Travel(direction, i, k)[1]][Travel(direction, i, k)[2]]]

SourceTiles(b, direction, i) == SelectSeq(GridLine(b, direction, i), IsSome)

\* The source tiles a sequence of result cells stands for: a merged cell for
\* two tiles of half its value, any other occupied cell for itself.
RECURSIVE Expand(_)
Expand(cells) ==
  IF cells = <<>> THEN <<>>
  ELSE LET cell == Head(cells)
       IN (IF cell.value = None THEN <<>>
           ELSE IF cell.merged
                THEN IF cell.value % 2 = 0
                     THEN <<cell.value \div 2, cell.value \div 2>>
                     ELSE <<cell.value, None>>
                ELSE <<cell.value>>)
          \o Expand(Tail(cells))

OtherLinesEmpty(b, direction, i) ==
  \A j \in Idx \ {i} : SourceTiles(b, direction, j) = <<>>

Merged(v) == [value |-> v, merged |-> TRUE]
Single(v) == [value |-> v, merged |-> FALSE]

\* C1: once game_over is true, every apply_move (any direction) returns Ok
\* with changed=false, game_over=true, the same score and the same board
\* values and leaves grid, score and flag unchanged; only restart ends this.
C1_StickyTerminal ==
  [][(game_over /\ op' # "restart") =>
       /\ result' = "Ok"
       /\ outcome'.changed = FALSE
       /\ outcome'.game_over = TRUE
       /\ outcome'.score = score
       /\ OutcomeValues(outcome'.board) = board
       /\ board' = board
       /\ score' = score
       /\ game_over' = TRUE]_vars

\* A second apply_move in a row on an engine that is over.
C1_Witness ==
  /\ op = "move"
  /\ steps >= 2
  /\ pre.game_over
  /\ game_over
  /\ ~outcome.changed

\* C2: an apply_move that returns changed=false leaves the grid, the score
\* and the game_over flag as they were and spawns no tile.
C2_NoOpIdempotent ==
  (op = "move" /\ result = "Ok" /\ ~outcome.changed) =>
    /\ board = pre.board
    /\ score = pre.score
    /\ game_over = pre.game_over
    /\ spawn = <<>>
    /\ CountFilled(board) = CountFilled(pre.board)

\* A move of an active engine that changed nothing.
C2_Witness ==
  /\ op = "move"
  /\ ~pre.game_over
  /\ ~outcome.changed
  /\ CountFilled(board) < BOARD_SIZE * BOARD_SIZE

\* C3 as stated: the tile sum after apply_move is the sum before plus the
\* score delta of the move plus the value of the spawned tile.
C3_MassPlusScoreDelta ==
  (op = "move" /\ result = "Ok") =>
    TileSum(board) = TileSum(pre.board) + (score - pre.score) + SpawnedValue

\* C3 amended: the tile sum after apply_move is the sum before plus the
\* value of the spawned tile, if one was spawned; the score delta is not
\* part of it.
C3_MassConserved ==
  (op = "move" /\ result = "Ok") =>
    TileSum(board) = TileSum(pre.board) + SpawnedValue

\* A move that merged (score delta > 0) and spawned.
C3_Witness ==
  /\ op = "move"
  /\ score > pre.score
  /\ spawn # <<>>
  /\ TileSum(board) = TileSum(pre.board) + spawn[2]

\* C4: an apply_move that returns changed=true spawns exactly one tile: one
\* cell that was empty in the post-slide board now holds 2 or 4, every
\* other cell equals the post-slide board, so exactly one more cell is
\* occupied.
C4_SpawnBounds ==
  (op = "move" /\ result = "Ok" /\ outcome.changed) =>
    /\ CountFilled(board) = CountFilled(OutcomeValues(slid.board)) + 1
    /\ \E p \in Positions :
         /\ slid.board[p[1]][p[2]].value = None
         /\ board[p[1]][p[2]] \in {2, 4}
         /\ \A q \in Positions \ {p} :
              board[q[1]][q[2]] = slid.board[q[1]][q[2]].value
    /\ OutcomeValues(outcome.board) = board

\* A changing move after which a 4 sits on a cell the slide left empty.
C4_Witness ==
  /\ op = "move"
  /\ outcome.changed
  /\ \E p \in Positions :
       /\ slid.board[p[1]][p[2]].value = None
       /\ board[p[1]][p[2]] = 4

\* C5: in one slide every result cell stands for one source tile or, when
\* flagged merged, for exactly two equal source tiles, in order (no tile
\* merges twice, no merged tile merges again); a line 2,2,2,2 gives two
\* merged 4s at the leading edge, with score delta 8.
C5_MergeOnce ==
  op = "slide_and_merge" =>
    \A i \in Idx :
      /\ Expand(OutLine(outcome.board, dir, i)) = SourceTiles(board, dir, i)
      /\ SourceTiles(board, dir, i) = <<2, 2, 2, 2>> =>
           /\ OutLine(outcome.board, dir, i) =
                <<Merged(4), Merged(4), CellDefault, CellDefault>>
           /\ OtherLinesEmpty(board, dir, i) => outcome.score = 8

\* The line 2,2,2,2 slid toward an edge.
C5_Witness ==
  /\ op = "slide_and_merge"
  /\ \E i \in Idx :
       /\ SourceTiles(board, dir, i) = <<2, 2, 2, 2>>
       /\ OtherLinesEmpty(board, dir, i)
       /\ outcome.score = 8

\* The grid seen in the mirror across the move axis: left-right for Left
\* and Right, top-bottom for Up and Down.
MirrorCell(direction, r, c) ==
  IF direction \in {"Left", "Right"}
  THEN <<r, BOARD_SIZE - 1 - c>>
  ELSE <<BOARD_SIZE - 1 - r, c>>

Mirror(direction, b) ==
  [r \in Idx |-> [c \in Idx |->
     b[MirrorCell(direction, r, c)[1]][MirrorCell(direction, r, c)[2]]]]

Opposite(direction) ==
  CASE direction = "Left" -> "Right"
    [] direction = "Right" -> "Left"
    [] direction = "Up" -> "Down"
    [] direction = "Down" -> "Up"

RowValues(ob, i) == [k \in 1 .. BOARD_SIZE |-> ob[i][k - 1].value]

\* C6: the slide result of a direction is the mirror image of the slide
\* result of the opposite direction on the mirrored grid (values and merged
\* flags), with the same score delta; the row 2,2,4,4 gives 4,8,_,_ slid
\* Left and _,_,4,8 slid Right, with score delta 12.
C6_DirectionalSymmetry ==
  op = "slide_and_merge" =>
    LET other == SlideAndMerge(Mirror(dir, board), Opposite(dir),
                               OutcomeDefault)
    IN /\ outcome.board = Mirror(dir, other.board)
       /\ outcome.score = other.score
       /\ \A i \in Idx :
            GridLine(board, "Left", i) = <<2, 2, 4, 4>> =>
              /\ dir = "Left" =>
                   RowValues(outcome.board, i) = <<4, 8, None, None>>
              /\ dir = "Right" =>
                   RowValues(outcome.board, i) = <<None, None, 4, 8>>
              /\ (dir \in {"Left", "Right"}
                  /\ OtherLinesEmpty(board, dir, i)) => outcome.score = 12

\* The row 2,2,4,4 slid Right.
C6_Witness ==
  /\ op = "slide_and_merge"
  /\ dir = "Right"
  /\ \E i \in Idx :
       /\ GridLine(board, "Left", i) = <<2, 2, 4, 4>>
       /\ RowValues(outcome.board, i) = <<None, None, 4, 8>>
       /\ outcome.score = 12

\* C7: check_game_over sets game_over in the outcome and on the engine if
\* and only if no cell is empty and no two adjacent cells hold equal values
\* (values need not be powers of two; pairs in the last row and the last
\* column count); otherwise it leaves both flags as they were.
C7_GameOverDetection ==
  op = "check_game_over" =>
    IF Terminal(board)
    THEN outcome.game_over /\ game_over
    ELSE ~outcome.game_over /\ game_over = pre.game_over

\* A full grid whose only equal neighbours lie in the last row or the last
\* column, on an engine whose flag was clear: not reported over.
C7_Witness ==
  /\ op = "check_game_over"
  /\ Full(board)
  /\ ~pre.game_over
  /\ ~game_over
  /\ ~outcome.game_over
  /\ \A p \in Positions : \A q \in Positions :
       (Adjacent(p, q) /\ board[p[1]][p[2]] = board[q[1]][q[2]]) =>
         \/ p[1] = BOARD_SIZE - 1 /\ q[1] = BOARD_SIZE - 1
         \/ p[2] = BOARD_SIZE - 1 /\ q[2] = BOARD_SIZE - 1

\* C8: restart, from any engine state, resets the score to 0, clears
\* game_over, installs a grid of exactly 2 tiles each 2 or 4, and returns
\* changed=true, score 0, game_over=false; afterwards apply_move is
\* effective again (the engine is active and some direction changes the grid).
C8_Restart ==
  op = "restart" =>
    /\ score = 0
    /\ ~game_over
    /\ CountFilled(board) = 2
    /\ \A p \in Filled(board) : board[p[1]][p[2]] \in {2, 4}
    /\ result = "Ok"
    /\ outcome.changed
    /\ outcome.score = 0
    /\ ~outcome.game_over
    /\ OutcomeValues(outcome.board) = board
    /\ ~IsGameOver(game_over) /\ CanMove(board)

\* A restart of an engine that was over, with a full grid.
C8_Witness ==
  /\ op = "restart"
  /\ pre.game_over
  /\ Full(pre.board)
  /\ pre.score > 0

\* C9: when a move changes a grid that was not full and the spawned tile
\* leaves it full with no adjacent equal pair, that apply_move returns
\* changed=true and game_over=true together and the engine is over.
C9_SpawnInducedGameOver ==
  (/\ op = "move"
   /\ result = "Ok"
   /\ ~pre.game_over
   /\ ~Full(pre.board)
   /\ board # pre.board
   /\ Terminal(board)) =>
    /\ outcome.changed
    /\ outcome.game_over
    /\ game_over

\* A move on a grid with an empty cell whose spawn ended the game.
C9_Witness ==
  /\ op = "move"
  /\ ~pre.game_over
  /\ ~Full(pre.board)
  /\ spawn # <<>>
  /\ Terminal(board)
  /\ outcome.changed
  /\ outcome.game_over
  /\ game_over

\* C10: whenever the slide step changes the grid, the post-slide board has
\* an empty cell, so spawn_random_tile finds one and apply_move returns Ok.
C10_SpawnNeverFails ==
  /\ result = "Ok"
  /\ (op = "move" /\ ~pre.game_over
      /\ OutcomeValues(slid.board) # pre.board) =>
       /\ ~Full(OutcomeValues(slid.board))
       /\ spawn # <<>>

\* A full grid changed by a move: the merge freed the cell for the spawn.
C10_Witness ==
  /\ op = "move"
  /\ ~pre.game_over
  /\ Full(pre.board)
  /\ OutcomeValues(slid.board) # pre.board
  /\ result = "Ok"
  /\ spawn # <<>>

\* The sum of the values of the merged-flagged cells of an outcome board.
MergedCells(ob) == {p \in Positions : ob[p[1]][p[2]].merged}
MergedSum(ob) == SumCells(OutcomeValues(ob), MergedCells(ob))

\* C11: the score never decreases except by restart; each apply_move adds
\* exactly the sum of the values of the tiles its merges created (0 when
\* nothing merged), and outcome.score is the new cumulative score.
C11_ScoreAccrual ==
  /\ op # "restart" => score >= pre.score
  /\ (op = "move" /\ result = "Ok") =>
       /\ score = pre.score + MergedSum(slid.board)
       /\ outcome.score = score

\* A merging move on an engine whose score was already positive.
C11_Witness ==
  /\ op = "move"
  /\ pre.score > 0
  /\ MergedSum(slid.board) > 0
  /\ outcome.score = pre.score + MergedSum(slid.board)

\* The cells in which an outcome board and a grid hold different values.
Differing(ob, b) == {p \in Positions : ob[p[1]][p[2]].value # b[p[1]][p[2]]}

\* C12: for an active engine apply_move returns changed=true if and only
\* if the post-slide board differs from the pre-move grid in some cell
\* value; update_board leaves the grid equal to the outcome board cell by
\* cell, and a second update_board with the same outcome finds no
\* difference and writes nothing.
C12_BoardDiff ==
  (op = "move" /\ result = "Ok" /\ ~pre.game_over) =>
    /\ outcome.changed <=> Differing(slid.board, pre.board) # {}
    /\ \A p \in Positions :
         board[p[1]][p[2]] = outcome.board[p[1]][p[2]].value
    /\ ~UpdateBoardChanged(board, [outcome EXCEPT !.changed = FALSE])
    /\ UpdateBoardGrid(board, outcome) = board

\* A move that changed a value without any merge, and one cell more by
\* the spawn.
C12_Witness ==
  /\ op = "move"
  /\ ~pre.game_over
  /\ outcome.changed
  /\ MergedCells(slid.board) = {}
  /\ Cardinality(Differing(slid.board, pre.board)) >= 2
  /\ spawn # <<>>

\* C13: Game::new and the grid built by restart hold exactly 2 tiles at two
\* distinct cells, each 2 or 4, the other 14 cells empty, with score 0 and
\* game_over false.
C13_NewGame ==
  op \in {"new", "restart"} =>
    /\ \E p \in Positions : \E q \in Positions :
         /\ p # q
         /\ board[p[1]][p[2]] \in {2, 4}
         /\ board[q[1]][q[2]] \in {2, 4}
         /\ \A x \in Positions \ {p, q} : board[x[1]][x[2]] = None
    /\ Cardinality(Positions \ Filled(board)) = BOARD_SIZE * BOARD_SIZE - 2
    /\ score = 0
    /\ game_over = FALSE

\* A new game holding one 2 and one 4.
C13_Witness ==
  /\ op = "new"
  /\ \E p \in Positions : board[p[1]][p[2]] = 2
  /\ \E q \in Positions : board[q[1]][q[2]] = 4

RECURSIVE IsPowerOfTwo(_)
IsPowerOfTwo(v) ==
  IF v < 2 THEN FALSE
  ELSE IF v = 2 THEN TRUE
  ELSE v % 2 = 0 /\ IsPowerOfTwo(v \div 2)

\* C14: in every state reachable from Game::new() by apply_move and
\* restart, every occupied cell of the grid holds a power of two >= 2.
C14_PowerOfTwo ==
  \A p \in Filled(board) : IsPowerOfTwo(board[p[1]][p[2]])

\* A merge of two 4s put an 8 on the grid next to a spawned tile.
C14_Witness ==
  /\ op = "move"
  /\ spawn # <<>>
  /\ \E p \in MergedCells(slid.board) : board[p[1]][p[2]] = 8

\* The occupied cells of row i and of column i of the grid b.
OccupiedInRow(b, i) == {c \in Idx : b[i][c] # None}
OccupiedInCol(b, i) == {r \in Idx : b[r][i] # None}

\* ret lists the values at the indices occ of a line in increasing order
\* of index (in decreasing order when reversed), and nothing else.
ListsInOrder(ret, occ, reversed, ValueAt(_)) ==
  /\ Len(ret) = Cardinality(occ)
  /\ \A x \in occ :
       LET before == {y \in occ : IF reversed THEN y > x ELSE y < x}
       IN ret[Cardinality(before) + 1] = ValueAt(x)

\* C15: row(i) and col(i) yield exactly the occupied values of that row or
\* column in board order (left to right, top to bottom), empty cells
\* skipped, and the reverse traversal yields the same values in the
\* opposite order.
C15_LineAccess ==
  /\ op = "row" =>
       LET i == call.args[1]
           ValueAt(c) == board[i][c]
       IN /\ ListsInOrder(call.ret, OccupiedInRow(board, i), call.args[2],
                          ValueAt)
          /\ call.args[2] =>
               \A k \in 1 .. Len(call.ret) :
                 call.ret[k] = Row(board, i)[Len(call.ret) + 1 - k]
  /\ op = "col" =>
       LET i == call.args[1]
           ValueAt(r) == board[r][i]
       IN /\ ListsInOrder(call.ret, OccupiedInCol(board, i), call.args[2],
                          ValueAt)
          /\ call.args[2] =>
               \A k \in 1 .. Len(call.ret) :
                 call.ret[k] = Col(board, i)[Len(call.ret) + 1 - k]

\* row(i).rev() on a row with a gap between two different tiles.
C15_Witness ==
  /\ op = "row"
  /\ call.args[2]
  /\ Len(call.ret) = 2
  /\ call.ret[1] # call.ret[2]
  /\ \E c \in Idx \ {0, BOARD_SIZE - 1} : board[call.args[1]][c] = None
  /\ board[call.args[1]][0] = call.ret[2]

\* C16: a write through cell_mut is an unconditional overwrite: the
\* following cell(r, c) returns what was written whatever was there
\* before, every other cell is unchanged, and a default grid reads empty
\* everywhere.
C16_CellRoundTrip ==
  /\ op = "cell_mut" =>
       /\ call.ret = call.args[3]
       /\ Cell(board, call.args[1], call.args[2]) = call.args[3]
       /\ \A p \in Positions \ {<<call.args[1], call.args[2]>>} :
            Cell(board, p[1], p[2]) = Cell(pre.board, p[1], p[2])
  /\ \A p \in Positions : Cell(BoardDefault, p[1], p[2]) = None

\* An occupied cell overwritten with empty.
C16_Witness ==
  /\ op = "cell_mut"
  /\ call.args[3] = None
  /\ Cell(pre.board, call.args[1], call.args[2]) # None
  /\ call.ret = None
  /\ CountFilled(board) = CountFilled(pre.board) - 1

\* A line of the outcome written from the leading edge, padded with
\* default cells.
LineOf(cells) ==
  [k \in 1 .. BOARD_SIZE |-> IF k <= Len(cells) THEN cells[k] ELSE CellDefault]

\* C17: when a line holds an odd run of equal tiles, the pair nearest the
\* edge pushed toward merges and the tile farthest from that edge stays
\* unmerged; row [2,_,2,2] moved Right gives [_,_,2,4] with only the
\* rightmost cell flagged merged and score delta 4, and moved Left gives
\* [4,2,_,_].
C17_LeadingEdgeFirst ==
  op = "slide_and_merge" =>
    \A i \in Idx :
    \A src \in {SourceTiles(board, dir, i)} :
    \A out \in {OutLine(outcome.board, dir, i)} :
      /\ (Len(src) = 3 /\ src[1] = src[2] /\ src[2] = src[3]) =>
           out = LineOf(<<Merged(2 * src[1]), Single(src[1])>>)
      /\ (Len(src) = 4 /\ src[1] # src[2] /\ src[2] = src[3]
            /\ src[3] = src[4]) =>
           out = LineOf(<<Single(src[1]), Merged(2 * src[2]),
                          Single(src[2])>>)
      /\ (Len(src) = 4 /\ src[1] = src[2] /\ src[2] = src[3]
            /\ src[3] # src[4]) =>
           out = LineOf(<<Merged(2 * src[1]), Single(src[1]),
                          Single(src[4])>>)
      /\ (dir \in {"Left", "Right"}
            /\ [c \in Idx |-> board[i][c]] = [c \in Idx |->
                  IF c = 1 THEN None ELSE 2]) =>
           /\ dir = "Right" =>
                /\ RowValues(outcome.board, i) = <<None, None, 2, 4>>
                /\ {c \in Idx : outcome.board[i][c].merged}
                     = {BOARD_SIZE - 1}
           /\ dir = "Left" =>
                /\ RowValues(outcome.board, i) = <<4, 2, None, None>>
                /\ {c \in Idx : outcome.board[i][c].merged} = {0}
           /\ OtherLinesEmpty(board, dir, i) => outcome.score = 4

\* The row [2,_,2,2] alone on the grid moved Right.
C17_Witness ==
  /\ op = "slide_and_merge"
  /\ dir = "Right"
  /\ \E i \in Idx :
       /\ [c \in Idx |-> board[i][c]] = [c \in Idx |-> IF c = 1 THEN None ELSE 2]
       /\ OtherLinesEmpty(board, dir, i)
       /\ RowValues(outcome.board, i) = <<None, None, 2, 4>>
       /\ outcome.score = 4

\* The grid b with every line along the move axis but line i emptied.
OnlyLine(b, direction, i) ==
  [r \in Idx |-> [c \in Idx |->
     IF (IF direction \in {"Left", "Right"} THEN r ELSE c) = i
     THEN b[r][c] ELSE None]]

\* C18: after the slide step, in each of the 4 lines along the move axis
\* the occupied cells form a contiguous block starting at the leading edge
\* and the remaining cells are empty, the surviving tiles keep their
\* relative order, and each line's result depends only on that line of
\* the grid before the move.
C18_Compaction ==
  op = "slide_and_merge" =>
    \A i \in Idx :
    \A out \in {OutLine(outcome.board, dir, i)} :
    \A alone \in {SlideAndMerge(OnlyLine(board, dir, i), dir,
                                OutcomeDefault).board} :
      /\ \E n \in 0 .. BOARD_SIZE :
           /\ \A k \in 1 .. n : out[k].value # None
           /\ \A k \in (n + 1) .. BOARD_SIZE : out[k] = CellDefault
      /\ Expand(out) = SourceTiles(board, dir, i)
      /\ out = OutLine(alone, dir, i)

\* A row with gaps between three different tiles moved Right on a full
\* grid: the tiles close up at the right edge in the same order.
C18_Witness ==
  /\ op = "slide_and_merge"
  /\ dir = "Right"
  /\ \E i \in Idx :
       /\ [c \in Idx |-> board[i][c]] = [c \in Idx |->
             IF c = 1 THEN None ELSE c + 1]
       /\ RowValues(outcome.board, i) = <<None, 1, 3, 4>>
       /\ ~OtherLinesEmpty(board, dir, i)

\* Which cells of a line, from the leading edge, combine two equal tiles
\* when the tiles src are paired greedily from the leading edge.
RECURSIVE Combined(_)
Combined(src) ==
  IF src = <<>> THEN <<>>
  ELSE IF Len(src) >= 2 /\ src[1] = src[2]
       THEN <<TRUE>> \o Combined(Tail(Tail(src)))
       ELSE <<FALSE>> \o Combined(Tail(src))

\* C19: in the outcome of an apply_move on an active engine a cell has
\* merged = true exactly when it was produced by combining two equal tiles
\* in that move, so the values of the merged cells sum to the move's score
\* delta; the spawned tile is never flagged merged; outcomes of restart and
\* of apply_move on an engine that is over have merged = false everywhere.
C19_MergedFlags ==
  /\ (op = "move" /\ result = "Ok" /\ ~pre.game_over) =>
       /\ \A i \in Idx : \A k \in 1 .. BOARD_SIZE :
            LET comb == Combined(SourceTiles(pre.board, dir, i))
                p == Travel(dir, i, k)
            IN (p \in MergedCells(outcome.board))
                 <=> (k <= Len(comb) /\ comb[k])
       /\ MergedSum(outcome.board) = score - pre.score
       /\ spawn # <<>> => spawn[1] \notin MergedCells(outcome.board)
  /\ (op = "move" /\ pre.game_over) => MergedCells(outcome.board) = {}
  /\ op = "restart" => MergedCells(outcome.board) = {}

\* A move that merged two pairs and spawned a tile.
C19_Witness ==
  /\ op = "move"
  /\ ~pre.game_over
  /\ spawn # <<>>
  /\ Cardinality(MergedCells(outcome.board)) >= 2
  /\ score > pre.score

\* C20: the terminal check runs even when nothing changed: on an engine
\* with game_over false whose grid is full with no adjacent equal pair,
\* apply_move in any direction returns changed = false and game_over =
\* true, sets the engine's flag, spawns nothing and leaves grid and score
\* unchanged.
C20_TerminalCheckUnconditional ==
  (op = "move" /\ ~pre.game_over /\ Terminal(pre.board)) =>
    /\ result = "Ok"
    /\ outcome.changed = FALSE
    /\ outcome.game_over = TRUE
    /\ game_over = TRUE
    /\ spawn = <<>>
    /\ board = pre.board
    /\ score = pre.score
    /\ outcome.score = pre.score

\* A move on a full grid with no equal neighbours whose flag was not set.
C20_Witness ==
  /\ op = "move"
  /\ pre.game_over = FALSE
  /\ Terminal(pre.board)
  /\ pre.board # BoardFromRows(FinalPosition.rows)
  /\ game_over
  /\ outcome.game_over

\* The cells of an outcome board that hold no value.
EmptyIn(ob) == {p \in Positions : ob[p[1]][p[2]].value = None}

\* C21: spawn_random_tile called directly returns the error on an outcome
\* board with no empty cell and leaves every cell unchanged; on a board
\* with at least one empty cell it returns Ok, writes 2 or 4 with merged =
\* false into one previously empty cell (the only one when exactly one is
\* empty) and changes no occupied cell.
C21_SpawnDirect ==
  op = "spawn_random_tile" =>
    /\ EmptyIn(slid.board) = {} =>
         /\ result = "Err"
         /\ outcome.board = slid.board
    /\ EmptyIn(slid.board) # {} =>
         /\ result = "Ok"
         /\ \E p \in EmptyIn(slid.board) :
              /\ outcome.board[p[1]][p[2]].value \in {2, 4}
              /\ outcome.board[p[1]][p[2]].merged = FALSE
              /\ \A q \in Positions \ {p} :
                   outcome.board[q[1]][q[2]] = slid.board[q[1]][q[2]]
         /\ \A q \in Positions \ EmptyIn(slid.board) :
              outcome.board[q[1]][q[2]] = slid.board[q[1]][q[2]]
    /\ outcome.score = slid.score
    /\ outcome.changed = slid.changed
    /\ outcome.game_over = slid.game_over

\* The only empty cell of a board of merged tiles received a 4.
C21_Witness ==
  /\ op = "spawn_random_tile"
  /\ result = "Ok"
  /\ Cardinality(EmptyIn(slid.board)) = 1
  /\ EmptyIn(outcome.board) = {}
  /\ MergedCells(slid.board) # {}
  /\ spawn[2] = 4

\* The full board returned the error.
C21_WitnessErr ==
  /\ op = "spawn_random_tile"
  /\ result = "Err"
  /\ EmptyIn(slid.board) = {}

\* C22: in every state reachable from Game::new() by apply_move and restart
\* the engine's game_over flag is true exactly when the grid is terminal
\* (full with no adjacent equal pair); the flag goes from false to true
\* only inside an apply_move and from true to false only inside restart.
C22_FlagIffTerminal ==
  /\ [](game_over <=> Terminal(board))
  /\ [][/\ (~game_over /\ game_over') => op' = "move"
        /\ (game_over /\ ~game_over') => op' = "restart"]_vars

\* The flag was set by a move and then cleared by a restart.
C22_Witness ==
  /\ op = "restart"
  /\ pre.game_over
  /\ Terminal(pre.board)
  /\ ~game_over
  /\ ~Terminal(board)
  /\ steps = MaxMoves

\* The slide step changes some cell of b for the direction d.
SlideChanges(b, d) ==
  \E ob \in {SlideAndMerge(b, d, OutcomeDefault).board} : Differing(ob, b) # {}

\* C23: for every board holding at least one tile the terminal predicate
\* of check_game_over is true if and only if the slide step changes no
\* cell for any of the four directions; hence an active engine has a
\* direction whose move changes the grid, and game over is never declared
\* while a changing move exists.
C23_GameOverExact ==
  /\ (op = "given" /\ CountFilled(board) >= 1) =>
       (ScanCompletes(board) <=> \A d \in GameAction : ~SlideChanges(board, d))
  /\ op = "move" =>
       /\ Differing(slid.board, pre.board) # {} => ~ScanCompletes(pre.board)
       /\ ScanCompletes(pre.board) => ~outcome.changed /\ outcome.game_over
       /\ result = "Ok"
       /\ game_over = outcome.game_over
       /\ CountFilled(board) >= 1 =>
            (game_over <=> \A d \in GameAction : ~SlideChanges(board, d))

\* A full grid that still has a merge: the move changes nothing, the
\* engine stays active and another direction changes the grid.
C23_Witness ==
  /\ op = "move"
  /\ ~pre.game_over
  /\ Full(pre.board)
  /\ ~outcome.changed
  /\ ~game_over
  /\ \E d \in GameAction : SlideChanges(board, d)

\* C24: after every apply_move that returns Ok and after every restart the
\* outcome's board values equal the engine grid cell by cell (spawned tile
\* included), outcome.score equals the engine score and outcome.game_over
\* equals is_game_over().
C24_OutcomeMirrorsEngine ==
  ((op = "move" /\ result = "Ok") \/ op = "restart") =>
    /\ \A p \in Positions : outcome.board[p[1]][p[2]].value = Cell(board, p[1], p[2])
    /\ spawn # <<>> =>
         /\ outcome.board[spawn[1][1]][spawn[1][2]].value = spawn[2]
         /\ Cell(board, spawn[1][1], spawn[1][2]) = spawn[2]
    /\ outcome.score = score
    /\ outcome.game_over = IsGameOver(game_over)

\* A move on an engine that is over returned the frozen grid, the final
\* score and game_over = true.
C24_Witness ==
  /\ op = "move"
  /\ pre.game_over
  /\ outcome.game_over
  /\ outcome.score = score
  /\ score > 0
  /\ OutcomeValues(outcome.board) = board

\* C25: a merge always counts as a change: if the slide step merges at
\* least one pair (score delta > 0 or any cell flagged merged) then changed
\* is true and a tile is spawned; a move with changed = false has score
\* delta 0 and no cell flagged merged.
C25_MergeIsChange ==
  (op = "move" /\ ~pre.game_over) =>
    /\ (slid.score > 0 \/ score > pre.score \/ MergedCells(slid.board) # {}) =>
         /\ result = "Ok"
         /\ outcome.changed
         /\ spawn # <<>>
    /\ (result = "Ok" /\ ~outcome.changed) =>
         /\ score = pre.score
         /\ slid.score = 0
         /\ MergedCells(slid.board) = {}
         /\ MergedCells(outcome.board) = {}

\* A merge on a full grid where no tile could slide: the merge alone made
\* the move a change.
C25_Witness ==
  /\ op = "move"
  /\ ~pre.game_over
  /\ Full(pre.board)
  /\ MergedCells(slid.board) # {}
  /\ outcome.changed
  /\ spawn # <<>>

\* C26: sliding and merging conserve total tile value: the sum of the
\* tiles on the post-slide board equals the sum on the grid before the
\* move, so across an apply_move the grid sum grows by the spawned tile's
\* value (2 or 4) when changed = true and by 0 when changed = false,
\* whatever the score delta.
C26_SlideConservesSum ==
  (op = "move" /\ ~pre.game_over /\ result = "Ok") =>
    /\ TileSum(OutcomeValues(slid.board)) = TileSum(pre.board)
    /\ outcome.changed =>
         /\ spawn # <<>>
         /\ spawn[2] \in {2, 4}
         /\ TileSum(board) - TileSum(pre.board) = spawn[2]
    /\ ~outcome.changed =>
         /\ spawn = <<>>
         /\ TileSum(board) - TileSum(pre.board) = 0

\* A move in the last line that merged a pair of 3s: the score grew by 6,
\* the grid sum by the spawned 2.
C26_Witness ==
  /\ op = "move"
  /\ ~pre.game_over
  /\ \E p \in MergedCells(slid.board) :
       p[1] = BOARD_SIZE - 1 /\ slid.board[p[1]][p[2]].value = 6
  /\ score - pre.score = 6
  /\ spawn # <<>>
  /\ spawn[2] = 2
  /\ TileSum(board) = TileSum(pre.board) + 2

\* C27: in every state reachable from Game::new() by apply_move and restart
\* the grid holds at least 2 and at most 16 tiles; a changing move leaves
\* (tiles before) - (number of merges) + 1 tiles.
C27_TileCount ==
  /\ CountFilled(board) >= 2
  /\ CountFilled(board) <= BOARD_SIZE * BOARD_SIZE
  /\ (op = "move" /\ result = "Ok" /\ outcome.changed) =>
       CountFilled(board)
         = CountFilled(pre.board) - Cardinality(MergedCells(slid.board)) + 1

\* A new game's two equal tiles merged: the merge took one tile and the
\* spawn gave one back.
C27_Witness ==
  /\ op = "move"
  /\ outcome.changed
  /\ CountFilled(pre.board) = 2
  /\ Cardinality(MergedCells(slid.board)) = 1
  /\ CountFilled(board) = 2

\* The move and restart commands among the Events seq, as engine calls.
IsCommand(e) == e # "Quit"
Calls(seq) ==
  LET cmds == SelectSeq(seq, IsCommand)
  IN [k \in 1 .. Len(cmds) |-> EngineCall(cmds[k])]

\* The command event_loop has received and not yet passed to the engine.
InHand == IF event_pc = "handle" THEN <<current>> ELSE <<>>

C28_WitnessBlocked ==
  /\ input_pc = "send"
  /\ Len(chan) = BUFSIZE
  /\ in_call = 1
  /\ pending # NoEvent

====
